---- MODULE Spec2Model ----
(***************************************************************************)
(* Quote poster generator: the compositing core (PosterGenerator,          *)
(* image_utils.add_text_to_image) and the preview renderer of MainWindow.  *)
(*                                                                         *)
(* A QPixmap is modelled as a display list: its size, the solid fill       *)
(* under everything, at most one background raster layer (a source image   *)
(* resampled to scw x sch and placed at dx,dy) and at most one drawText    *)
(* call.  Pixels and glyph ink are derived from it by operators.           *)
(***************************************************************************)
EXTENDS Integers, Sequences, FiniteSets, TLC

(* ------------------------------ bounds -------------------------------- *)
MaxDim == 3
MaxSrc == 2
MaxPad == 2
MaxGrow == 1

MaxWorkers == 3

(* ----------------------------- arithmetic ----------------------------- *)
Abs(n) == IF n < 0 THEN -n ELSE n

Sign(n) == IF n < 0 THEN -1 ELSE IF n > 0 THEN 1 ELSE 0

Max(a, b) == IF a >= b THEN a ELSE b

Min(a, b) == IF a <= b THEN a ELSE b

(* ------------------------------- QRect -------------------------------- *)
\* QRect keeps inclusive corners; width() = x2 - x1 + 1 may be negative.
QRect(x, y, w, h) == [x1 |-> x, y1 |-> y, x2 |-> x + w - 1, y2 |-> y + h - 1]

RectWidth(r) == r.x2 - r.x1 + 1

RectHeight(r) == r.y2 - r.y1 + 1

RectIsEmpty(r) == r.x1 > r.x2 \/ r.y1 > r.y2

Adjusted(r, a, b, c, d) ==
    [x1 |-> r.x1 + a, y1 |-> r.y1 + b, x2 |-> r.x2 + c, y2 |-> r.y2 + d]

Intersected(r, s) ==
    IF RectIsEmpty(r) \/ RectIsEmpty(s) THEN QRect(0, 0, 0, 0)
    ELSE LET i == [x1 |-> Max(r.x1, s.x1), y1 |-> Max(r.y1, s.y1),
                   x2 |-> Min(r.x2, s.x2), y2 |-> Min(r.y2, s.y2)]
         IN  IF RectIsEmpty(i) THEN QRect(0, 0, 0, 0) ELSE i

(* ------------------------------ QPixmap ------------------------------- *)
NoImage == [id |-> "none", sw |-> 0, sh |-> 0, scw |-> 0, sch |-> 0,
            dx |-> 0, dy |-> 0]

NoText == [drawn |-> FALSE, rect |-> QRect(0, 0, 0, 0), flags |-> {},
           text |-> <<>>, color |-> "none"]

NullPixmap == [null |-> TRUE, w |-> 0, h |-> 0, fill |-> "none",
               image |-> NoImage, text |-> NoText]

\* A decoded raster of sw x sh pixels whose pixel (i,j) is <<id, i, j>>.
Raster(id, sw, sh) ==
    [null |-> FALSE, w |-> sw, h |-> sh, fill |-> "none",
     image |-> [id |-> id, sw |-> sw, sh |-> sh, scw |-> sw, sch |-> sh,
                dx |-> 0, dy |-> 0],
     text |-> NoText]

\* QPixmap(w, h): a null pixmap when either side is not positive.
NewPixmap(w, h) ==
    IF w <= 0 \/ h <= 0 THEN NullPixmap
    ELSE [null |-> FALSE, w |-> w, h |-> h, fill |-> "uninitialized",
          image |-> NoImage, text |-> NoText]

\* The fill left out.
FillSkipped(p, color) == p

\* QPixmap.fill(color)
Fill(p, color) ==
    IF p.null THEN p
    ELSE [p EXCEPT !.fill = color, !.image = NoImage, !.text = NoText]

PixmapRect(p) == QRect(0, 0, p.w, p.h)

\* Qt::KeepAspectRatio in place of KeepAspectRatioByExpanding.
ScaledSizeShrinking(sw, sh, tw, th) ==
    IF sw = 0 \/ sh = 0 THEN <<tw, th>>
    ELSE LET rw == (th * sw) \div sh
         IN  IF rw <= tw THEN <<rw, th>>
             ELSE <<tw, (tw * sh) \div sw>>

\* Qt::IgnoreAspectRatio in place of KeepAspectRatioByExpanding.
ScaledSizeIgnoreAspect(sw, sh, tw, th) == <<tw, th>>

\* QSize::scaled for Qt::KeepAspectRatioByExpanding.
ScaledSizeExpanding(sw, sh, tw, th) ==
    IF sw = 0 \/ sh = 0 THEN <<tw, th>>
    ELSE LET rw == (th * sw) \div sh
         IN  IF rw >= tw THEN <<rw, th>>
             ELSE <<tw, (tw * sh) \div sw>>

\* QPixmap.scaled(tw, th, KeepAspectRatioByExpanding, SmoothTransformation)
\* of a raster that has not been scaled or cropped before.
Scaled(p, tw, th) ==
    IF p.null \/ tw <= 0 \/ th <= 0 THEN NullPixmap
    ELSE LET s  == ScaledSizeExpanding(p.w, p.h, tw, th)
             nw == Max(s[1], 1)
             nh == Max(s[2], 1)
         IN  IF nw = p.w /\ nh = p.h THEN p
             ELSE [p EXCEPT !.w = nw, !.h = nh,
                            !.image.scw = nw, !.image.sch = nh]

\* QPixmap.copy(x, y, w, h): the rectangle is clipped to the pixmap; an
\* empty rectangle means the whole pixmap.
Copy(p, x, y, w, h) ==
    IF p.null THEN NullPixmap
    ELSE LET rect == QRect(x, y, w, h)
             r == IF RectIsEmpty(rect) THEN PixmapRect(p)
                  ELSE Intersected(PixmapRect(p), rect)
         IN  IF RectIsEmpty(r) THEN NullPixmap
             ELSE [p EXCEPT !.w = RectWidth(r), !.h = RectHeight(r),
                            !.image.dx = p.image.dx - r.x1,
                            !.image.dy = p.image.dy - r.y1]

\* The colour of pixel (i,j) under the text: the raster layer where it
\* covers the pixel, the fill elsewhere.  A resampled pixel is named by the
\* source pixel its centre falls in.
PixelAt(p, i, j) ==
    LET u == i - p.image.dx
        v == j - p.image.dy
    IN  IF p.image.id # "none" /\ u >= 0 /\ u < p.image.scw
           /\ v >= 0 /\ v < p.image.sch
        THEN <<p.image.id, (u * p.image.sw) \div p.image.scw,
                           (v * p.image.sh) \div p.image.sch>>
        ELSE <<p.fill, 0, 0>>

Pixels(p) == [c \in (0 .. p.w - 1) \X (0 .. p.h - 1) |-> PixelAt(p, c[1], c[2])]

(* ------------------------- text and its layout ------------------------ *)
\* A text is a sequence of characters; "a", "b" and "-" are glyphs with ink.
Whitespace == {" ", "\n"}

\* HYPHEN-MINUS, line-break class HY
Hyphen == "-"

\* str.strip() leaves nothing: every character is whitespace.
IsBlank(t) == \A i \in 1 .. Len(t) : t[i] \in Whitespace

\* Metrics of the font set on the painter, in pixels: every character
\* advances by GlyphW, every line is LineH high, leading 0.
GlyphW == 1

LineH == 1

AlignLeftFlag == {"AlignLeft"}

AlignRightFlag == {"AlignRight"}

AlignCenterFlag == {"AlignHCenter", "AlignVCenter"}

TextWordWrap == {"TextWordWrap"}

\* A break opportunity only where whitespace follows.
RECURSIVE WordEndAtWhitespace(_, _)
WordEndAtWhitespace(t, i) ==
    IF i > Len(t) \/ t[i] \in Whitespace THEN i
    ELSE WordEndAtWhitespace(t, i + 1)

\* The end of the unbreakable run that starts at character i, as the
\* lineBreak attributes QTextLine reads under QTextOption::WordWrap give
\* it: the run ends before whitespace, and after a hyphen that a character
\* other than whitespace or a hyphen follows.
RECURSIVE WordEnd(_, _)
WordEnd(t, i) ==
    IF i > Len(t) \/ t[i] \in Whitespace THEN i
    ELSE IF /\ t[i] = Hyphen
            /\ i < Len(t)
            /\ t[i + 1] \notin Whitespace \cup {Hyphen}
    THEN i + 1
    ELSE WordEnd(t, i + 1)

RECURSIVE SpaceEnd(_, _)
SpaceEnd(t, i) ==
    IF i > Len(t) \/ t[i] # " " THEN i ELSE SpaceEnd(t, i + 1)

\* One line of QTextLine::setLineWidth under QTextOption::WordWrap, from
\* character pos on: `width` is the committed text width, `pending` the
\* width of spaces not yet followed by a word, `has` whether the line holds
\* a word already.  A word joins the line when it fits or the line is
\* still empty; a line separator ends the line.  The result gives the
\* first character of the next line and the width without trailing spaces.
RECURSIVE ExtendLine(_, _, _, _, _, _)
ExtendLine(t, pos, width, pending, has, lw) ==
    IF pos > Len(t) THEN [next |-> pos, width |-> width]
    ELSE IF t[pos] = "\n" THEN [next |-> pos + 1, width |-> width]
    ELSE IF t[pos] = " "
    THEN ExtendLine(t, SpaceEnd(t, pos), width,
                    pending + (SpaceEnd(t, pos) - pos) * GlyphW, has, lw)
    ELSE LET we == WordEnd(t, pos)
             nw == width + pending + (we - pos) * GlyphW
         IN  IF has /\ nw > lw THEN [next |-> pos, width |-> width]
             ELSE ExtendLine(t, we, nw, 0, TRUE, lw)

\* The loop of qt_format_text: lines are created until the text is used up
\* or the accumulated height reaches the rectangle's height.  A text that
\* ends in a line separator gets one more, empty, line.
RECURSIVE LayoutLines(_, _, _, _, _)
LayoutLines(t, start, n, lw, rh) ==
    IF start > Len(t) /\ ~(n > 0 /\ t[Len(t)] = "\n" /\ start = Len(t) + 1)
    THEN <<>>
    ELSE IF start > Len(t)
    THEN <<[start |-> start, next |-> start + 1, width |-> 0]>>
    ELSE LET l == ExtendLine(t, start, 0, 0, FALSE, lw)
             line == [start |-> start, next |-> l.next, width |-> l.width]
         IN  IF (n + 1) * LineH >= rh THEN <<line>>
             ELSE <<line>> \o LayoutLines(t, l.next, n + 1, lw, rh)

RECURSIVE MaxWidth(_)
MaxWidth(lines) ==
    IF lines = <<>> THEN 0
    ELSE Max(Head(lines).width, MaxWidth(Tail(lines)))

\* qt_format_text for painter.drawText(rect, flags, text), in half pixels
\* (every coordinate doubled, as centring halves odd differences).
FormatText(rect, flags, t) ==
    LET rw == RectWidth(rect)
        rh == RectHeight(rect)
        lw == IF "TextWordWrap" \in flags THEN Max(0, rw) ELSE 16777216
        lines == LayoutLines(t, 1, 0, lw, rh)
        height == Len(lines) * LineH
        width == MaxWidth(lines)
        yoff2 == IF "AlignBottom" \in flags THEN 2 * (rh - height)
                 ELSE IF "AlignVCenter" \in flags THEN rh - height
                 ELSE 0
        XOff2(adv) == IF "AlignRight" \in flags THEN 2 * (rw - adv)
                      ELSE IF "AlignHCenter" \in flags THEN rw - adv
                      ELSE 0
    IN  [lines |-> lines,
         lineX2 |-> [k \in 1 .. Len(lines) |->
                        2 * rect.x1 + XOff2(lines[k].width)],
         lineY2 |-> [k \in 1 .. Len(lines) |->
                        2 * rect.y1 + yoff2 + 2 * (k - 1) * LineH],
         bounds2 |-> [x |-> 2 * rect.x1 + XOff2(width),
                      y |-> 2 * rect.y1 + yoff2,
                      w |-> 2 * width, h |-> 2 * height]]

\* QRectF::contains(QRectF) of the rectangle r (an integer QRect) and the
\* text bounds, both normalized first; a zero extent contains nothing and
\* is contained in nothing.
ContainsBounds(r, b2) ==
    LET l1 == 2 * Min(r.x1, r.x1 + RectWidth(r))
        r1 == 2 * Max(r.x1, r.x1 + RectWidth(r))
        t1 == 2 * Min(r.y1, r.y1 + RectHeight(r))
        b1 == 2 * Max(r.y1, r.y1 + RectHeight(r))
    IN  /\ l1 # r1 /\ t1 # b1 /\ b2.w # 0 /\ b2.h # 0
        /\ b2.x >= l1 /\ b2.x + b2.w <= r1
        /\ b2.y >= t1 /\ b2.y + b2.h <= b1

\* The region drawText may paint, in half pixels [x1,x2) x [y1,y2): the
\* device, cut to the rectangle (normalized by the raster engine's
\* setClipRectInDeviceCoords) unless the text bounds lie inside it.
ClipRegion2(p, rect, b2) ==
    LET dev == [x1 |-> 0, y1 |-> 0, x2 |-> 2 * p.w, y2 |-> 2 * p.h]
    IN  IF ContainsBounds(rect, b2) THEN dev
        ELSE [x1 |-> Max(0, 2 * Min(rect.x1, rect.x1 + RectWidth(rect))),
              y1 |-> Max(0, 2 * Min(rect.y1, rect.y1 + RectHeight(rect))),
              x2 |-> Min(2 * p.w, 2 * Max(rect.x1, rect.x1 + RectWidth(rect))),
              y2 |-> Min(2 * p.h, 2 * Max(rect.y1, rect.y1 + RectHeight(rect)))]

\* The glyphs of the drawText call of p with ink inside the clip region:
\* <<character index, line, x, y>> with x, y in half pixels.
Ink(p) ==
    IF ~p.text.drawn THEN {}
    ELSE LET f == FormatText(p.text.rect, p.text.flags, p.text.text)
             clip == ClipRegion2(p, p.text.rect, f.bounds2)
             GlyphX2(k, i) == f.lineX2[k] + 2 * (i - f.lines[k].start) * GlyphW
         IN  {<<i, k, GlyphX2(k, i), f.lineY2[k]>> :
                  <<i, k>> \in {c \in (1 .. Len(p.text.text)) \X (1 .. Len(f.lines)) :
                      /\ c[1] >= f.lines[c[2]].start
                      /\ c[1] < f.lines[c[2]].next
                      /\ p.text.text[c[1]] \notin Whitespace
                      /\ Max(GlyphX2(c[2], c[1]), clip.x1)
                           < Min(GlyphX2(c[2], c[1]) + 2 * GlyphW, clip.x2)
                      /\ Max(f.lineY2[c[2]], clip.y1)
                           < Min(f.lineY2[c[2]] + 2 * LineH, clip.y2)}}

\* painter.drawText(rect, flags, text) on a painter opened on p with the
\* pen set to color: nothing happens on a null pixmap (the painter is not
\* active) or for an empty string.
DrawText(p, rect, flags, t, color) ==
    IF p.null \/ Len(t) = 0 THEN p
    ELSE [p EXCEPT !.text = [drawn |-> TRUE, rect |-> rect, flags |-> flags,
                             text |-> t, color |-> color]]

(* --------------------------- PosterGenerator -------------------------- *)
VARIABLES
    settings,       \* PosterGenerator.settings, a PosterSettings
    hasBackground,  \* hasattr(self, 'background')
    background,     \* PosterGenerator.background
    last,           \* the last call on the generator or image_utils and its outcome
    first           \* <<>>, or what the first generate_poster since the background
                    \* was last set returned

\* MainWindow
VARIABLES
    current_background,  \* <<>> for None, <<pixmap>> otherwise
    text,                \* text_edit.toPlainText()
    alignment,           \* MainWindow.alignment, a set of Qt flags
    h_slider,            \* h_slider.value()
    v_slider,            \* v_slider.value()
    text_x_position,
    text_y_position,
    preview_size,        \* preview_label.size()
    preview,             \* <<>> before the first setPixmap, then <<what was drawn>>
    exported,            \* <<>>, then the <<width, height>> of the image export_poster last saved
    current_font,        \* MainWindow.current_font: family and point size
    text_color           \* MainWindow.text_color

styleVars == <<current_font, text_color>>

winVars == <<current_background, text, alignment, h_slider, v_slider,
             text_x_position, text_y_position, preview_size, preview, exported,
             styleVars>>

\* ConfigManager and the text layout on its own
VARIABLES
    config,      \* what config.json holds, as json.load returns it
    cfg_last,    \* the last ConfigManager call and its arguments
    wrap         \* the last text laid out on its own: text, width, lines

utilVars == <<config, cfg_last, wrap>>

\* AIGenerator, its AIGenerationWorker threads, and generate_background_ai
VARIABLES
    configured,   \* AIGenerator.is_configured()
    _worker,      \* AIGenerator._worker: 0 for None, else the worker's number
    workers,      \* the AIGenerationWorker threads created so far, by number
    queue,        \* per thread, the queued signal deliveries its event loop holds
    mainpc,       \* where the thread that owns the AIGenerator is
    gpc,          \* where GenerationThread.run is
    dialog,       \* the QProgressDialog of generate_background_ai
    delivered,    \* progress values the client's on_progress_updated was called with
    outcomes      \* results the client's on_generation_finished was called with

aiVars == <<configured, _worker, workers, queue, mainpc, gpc, dialog, delivered,
            outcomes>>

\* TextAlignment: the Qt flags each member stands for.
AlignmentValue(a) ==
    CASE a = "LEFT" -> {"AlignLeft", "AlignVCenter"}
      [] a = "CENTER" -> AlignCenterFlag
      [] a = "RIGHT" -> {"AlignRight", "AlignVCenter"}

Texts == {<<>>, <<" ">>, <<"a">>, <<"a", " ", "b">>}

PosterSizes == (0 .. MaxDim) \X (0 .. MaxDim)

\* PosterSettings with the default colours.
SettingsSet ==
    [text : Texts, alignment : {"LEFT", "CENTER", "RIGHT"},
     padding : 0 .. MaxPad, size : PosterSizes,
     background_color : {"#333333"}, text_color : {"white"}]

Rasters == {Raster("img", sw, sh) : <<sw, sh>> \in (1 .. MaxSrc) \X (1 .. MaxSrc)}

\* What a path can name: no file, a file that does not decode, an image.
Files == {[exists |-> FALSE, pixmap |-> NullPixmap],
          [exists |-> TRUE, pixmap |-> NullPixmap]}
         \cup {[exists |-> TRUE, pixmap |-> r] : r \in Rasters}

\* pixmap.size() != self.settings.size compares a QSize with a tuple: QSize
\* has no comparison with a tuple, Python falls back to identity, and the
\* two are never the same object.
SizeDiffers(qsize, tuple) == TRUE

\* The half rounded up.
CropOffsetCeil(scaledExtent, extent) == (scaledExtent - extent + 1) \div 2

\* No offset when the call before was a generate_poster.
CropOffsetAfterLast(scaledExtent, extent) ==
    IF last.op = "generate_poster" THEN 0 ELSE (scaledExtent - extent) \div 2

\* x = (pixmap.width() - self.settings.size[0]) // 2, and y likewise.
CropOffset(scaledExtent, extent) == (scaledExtent - extent) \div 2

\* pixmap.rect().adjusted(padding, padding, -padding, -padding)
PaddedRect(p, padding) ==
    Adjusted(PixmapRect(p), padding, padding, -padding, -padding)

\* One run of generate_poster, with what it computed on the way.
GeneratePoster(s, has, bg) ==
    LET w == s.size[1]
        h == s.size[2]
        blank == ~has \/ bg.null
        scaled == IF blank THEN NullPixmap ELSE Scaled(bg, w, h)
        cropped == ~blank /\ SizeDiffers(<<scaled.w, scaled.h>>, s.size)
        x == CropOffset(scaled.w, w)
        y == CropOffset(scaled.h, h)
        fitted == IF blank THEN Fill(NewPixmap(w, h), s.background_color)
                  ELSE IF cropped THEN Copy(scaled, x, y, w, h)
                  ELSE scaled
        textPass == ~IsBlank(s.text)
        rect == PaddedRect(fitted, s.padding)
    IN  [blank |-> blank, scaled |-> scaled, cropped |-> cropped,
         crop |-> IF cropped THEN QRect(x, y, w, h) ELSE QRect(0, 0, 0, 0),
         fitted |-> fitted, textPass |-> textPass,
         rect |-> IF textPass THEN rect ELSE QRect(0, 0, 0, 0),
         result |-> IF textPass
                    THEN DrawText(fitted, rect,
                                  AlignmentValue(s.alignment) \cup TextWordWrap,
                                  s.text, s.text_color)
                    ELSE fitted]

\* image_utils.add_text_to_image
AddTextToImage(pixmap, t, color, align, padding) ==
    IF pixmap.null \/ IsBlank(t)
    THEN [textPass |-> FALSE, rect |-> QRect(0, 0, 0, 0), result |-> pixmap]
    ELSE LET result == Copy(pixmap, 0, 0, 0, 0)
             rect == PaddedRect(result, padding)
         IN  [textPass |-> TRUE, rect |-> rect,
              result |-> DrawText(result, rect, align \cup TextWordWrap,
                                  t, color)]

NoRender ==
    [blank |-> FALSE, scaled |-> NullPixmap, cropped |-> FALSE,
     crop |-> QRect(0, 0, 0, 0), fitted |-> NullPixmap, textPass |-> FALSE,
     rect |-> QRect(0, 0, 0, 0), result |-> NullPixmap]

NoCall == [op |-> "none", ret |-> FALSE, raised |-> FALSE, input |-> NullPixmap,
           render |-> NoRender]

genVars == <<settings, hasBackground, background, last, first>>

\* A generator just constructed: no background attribute yet.
NoBackgroundYet ==
    /\ hasBackground = FALSE
    /\ background = NullPixmap
    /\ last = NoCall
    /\ first = <<>>

\* PosterGenerator(settings)
GenInit ==
    /\ settings \in SettingsSet
    /\ NoBackgroundYet

set_background_from_file(f) ==
    /\ IF ~f.exists
       THEN /\ UNCHANGED <<hasBackground, background, first>>
            /\ last' = [NoCall EXCEPT !.op = "set_background_from_file"]
       ELSE /\ hasBackground' = TRUE
            /\ background' = f.pixmap
            /\ first' = <<>>
            /\ last' = [NoCall EXCEPT !.op = "set_background_from_file",
                                      !.ret = ~f.pixmap.null]
    /\ UNCHANGED <<settings, winVars, aiVars, utilVars>>

set_background_from_pixmap(pixmap) ==
    /\ hasBackground' = TRUE
    /\ background' = pixmap
    /\ first' = <<>>
    /\ last' = [NoCall EXCEPT !.op = "set_background_from_pixmap"]
    /\ UNCHANGED <<settings, winVars, aiVars, utilVars>>

\* The first call of generate_poster since the background was last set, and
\* what it returned; later calls leave the record as it is.
Remembered(op, r) ==
    IF first = <<>> THEN <<[op |-> op, result |-> r.result]>> ELSE first

\* Painting lands on the pixmap handed to QPainter and on whatever shares it.
PaintedThrough(source, painted) == painted

\* self.background after generate_poster has painted on the pixmap it made
\* from it: scaled() and copy() return pixmaps of their own, and QPainter
\* detaches the one it paints on from any pixmap sharing its data.
BackgroundAfter(source, painted) == source

generate_poster ==
    LET r == GeneratePoster(settings, hasBackground, background)
    IN  /\ last' = [NoCall EXCEPT !.op = "generate_poster", !.render = r]
        /\ first' = Remembered("generate_poster", r)
        /\ background' = IF hasBackground /\ ~background.null
                         THEN BackgroundAfter(background, r.result)
                         ELSE background
        /\ UNCHANGED <<settings, hasBackground, winVars, aiVars, utilVars>>

\* poster.save(file_path, format) fails on a null pixmap and otherwise
\* succeeds or not as the file system decides.
save_poster(writable) ==
    LET r == GeneratePoster(settings, hasBackground, background)
    IN  /\ last' = [NoCall EXCEPT !.op = "save_poster", !.render = r,
                                  !.ret = writable /\ ~r.result.null]
        /\ first' = Remembered("save_poster", r)
        /\ background' = IF hasBackground /\ ~background.null
                         THEN BackgroundAfter(background, r.result)
                         ELSE background
        /\ UNCHANGED <<settings, hasBackground, winVars, aiVars, utilVars>>

\* add_text_to_image called with the generator's text, colour, alignment
\* and padding on pixmap.
add_text_to_image(pixmap) ==
    LET r == AddTextToImage(pixmap, settings.text, settings.text_color,
                            AlignmentValue(settings.alignment), settings.padding)
    IN  /\ last' = [NoCall EXCEPT !.op = "add_text_to_image", !.input = pixmap,
                                  !.render = [NoRender EXCEPT
                                                 !.fitted = pixmap,
                                                 !.textPass = r.textPass,
                                                 !.rect = r.rect,
                                                 !.result = r.result]]
        /\ UNCHANGED <<settings, hasBackground, background, first, winVars, aiVars, utilVars>>

GenNext ==
    \/ \E f \in Files : set_background_from_file(f)
    \/ \E p \in Rasters \cup {NullPixmap} : set_background_from_pixmap(p)
    \/ generate_poster
    \/ \E writable \in BOOLEAN : save_poster(writable)
    \/ \E p \in {NullPixmap, background,
                 Fill(NewPixmap(settings.size[1], settings.size[2]),
                      settings.background_color)} : add_text_to_image(p)

(* ------------------------------ MainWindow ---------------------------- *)
\* preview_label.setMinimumSize(640, 480)
MinPreviewW == 640

MinPreviewH == 480

\* margin = 40 in update_preview
Margin == 40

SliderMin == -100

SliderMax == 100

\* The sizes the layout gives preview_label: the minimum, grown evenly.
PreviewSizes == {<<MinPreviewW + g, MinPreviewH + g>> : g \in 0 .. MaxGrow}

\* The slider positions tried, all within setRange(-100, 100).
SliderStops == {SliderMin, -29, 0, 1, 50} \cap (SliderMin .. SliderMax)

WindowRasters == {Raster("img", 4, 3), Raster("img", 1, 1), Raster("img", 3, 4)}

\* The items of align_combo, by index.
AlignComboData == <<AlignLeftFlag, AlignCenterFlag, AlignRightFlag>>

\* The pairs (|pct|, |extent|), extent up to 1500, for which the double
\* product (pct / 100.0) * (extent / 2) falls below its exact value, an
\* integer, so that int() gives one less in magnitude.
DoubleShortfall ==
    {<<58, 100>>, <<70, 180>>, <<29, 200>>, <<57, 200>>, <<58, 200>>,
     <<82, 300>>, <<70, 340>>, <<35, 360>>, <<70, 360>>, <<29, 400>>,
     <<57, 400>>, <<58, 400>>, <<41, 600>>, <<57, 600>>, <<69, 600>>,
     <<82, 600>>, <<70, 660>>, <<35, 680>>, <<70, 680>>, <<70, 700>>,
     <<35, 720>>, <<70, 720>>, <<29, 800>>, <<57, 800>>, <<58, 800>>,
     <<41, 1200>>, <<57, 1200>>, <<69, 1200>>, <<82, 1200>>, <<35, 1300>>,
     <<70, 1300>>, <<35, 1320>>, <<70, 1320>>, <<35, 1340>>, <<70, 1340>>,
     <<35, 1360>>, <<70, 1360>>, <<35, 1380>>, <<70, 1380>>, <<35, 1400>>,
     <<70, 1400>>, <<35, 1420>>, <<70, 1420>>, <<35, 1440>>, <<70, 1440>>,
     <<35, 1460>>, <<70, 1460>>}

\* round() in place of int().
RoundedOffset(pct, extent) ==
    Sign(pct * extent) * ((Abs(pct * extent) + 100) \div 200)

\* The whole extent in place of its half.
PyIntOffsetFullExtent(pct, extent) ==
    Sign(pct * extent) * (Abs(pct * extent) \div 100)

\* int((pct / 100.0) * (extent / 2)): the double product truncated toward
\* zero.
PyIntOffset(pct, extent) ==
    LET q == Abs(pct * extent) \div 200
    IN  Sign(pct * extent)
          * (IF <<Abs(pct), Abs(extent)>> \in DoubleShortfall THEN q - 1 ELSE q)

\* The same sign for every alignment.
ShiftTextRectSameSign(rect, align, x_offset) ==
    Adjusted(rect, x_offset, 0, x_offset, 0)

\* The horizontal shift of text_rect by the alignment.
ShiftTextRect(rect, align, x_offset) ==
    IF "AlignLeft" \in align THEN Adjusted(rect, x_offset, 0, x_offset, 0)
    ELSE IF "AlignRight" \in align THEN Adjusted(rect, -x_offset, 0, -x_offset, 0)
    ELSE Adjusted(rect, x_offset, 0, x_offset, 0)

\* Only the top edge moved.
ShiftTextRectDownTopOnly(rect, y_offset) == Adjusted(rect, 0, y_offset, 0, 0)

\* text_rect.adjust(0, y_offset, 0, y_offset)
ShiftTextRectDown(rect, y_offset) == Adjusted(rect, 0, y_offset, 0, y_offset)

\* painter.drawPixmap(x, y, src) on a filled pixmap p.
DrawPixmap(p, x, y, src) ==
    IF p.null \/ src.null THEN p
    ELSE [p EXCEPT !.image = [src.image EXCEPT !.dx = x, !.dy = y]]

\* `if text:` in update_preview: any non-empty string.
TextPass(t) == Len(t) > 0

NoPreview ==
    [pixmap |-> NullPixmap, scaled |-> NullPixmap, x |-> 0, y |-> 0,
     textPass |-> FALSE, margin_rect |-> QRect(0, 0, 0, 0), x_offset |-> 0,
     y_offset |-> 0, text_rect |-> QRect(0, 0, 0, 0), font |-> <<>>]

\* update_preview past its guards: what it draws and hands to setPixmap,
\* the text in the given font and colour.
RenderPreviewStyled(bg, size, t, align, xpos, ypos, font, color) ==
    LET blankCanvas == Fill(NewPixmap(size[1], size[2]), "white")
        scaled_bg == Scaled(bg, size[1], size[2])
        x == (size[1] - scaled_bg.w) \div 2
        y == (size[2] - scaled_bg.h) \div 2
        withBg == DrawPixmap(blankCanvas, x, y, scaled_bg)
        textPass == TextPass(t)
        margin_rect == Adjusted(PixmapRect(withBg), Margin, Margin, -Margin, -Margin)
        x_offset == PyIntOffset(xpos, RectWidth(margin_rect))
        y_offset == PyIntOffset(ypos, RectHeight(margin_rect))
        text_rect == ShiftTextRectDown(ShiftTextRect(margin_rect, align, x_offset),
                                       y_offset)
    IN  IF textPass
        THEN [pixmap |-> DrawText(withBg, text_rect, align \cup TextWordWrap, t,
                                  color),
              scaled |-> scaled_bg, x |-> x, y |-> y, textPass |-> TRUE,
              margin_rect |-> margin_rect, x_offset |-> x_offset,
              y_offset |-> y_offset, text_rect |-> text_rect, font |-> <<font>>]
        ELSE [NoPreview EXCEPT !.pixmap = withBg, !.scaled = scaled_bg,
                               !.x = x, !.y = y]

\* update_preview past its guards with the window's font and colour.
RenderPreview(bg, size, t, align, xpos, ypos) ==
    RenderPreviewStyled(bg, size, t, align, xpos, ypos, current_font, text_color)

\* update_preview: returns early without a background (None) or with an
\* empty label; a QPixmap object, null or not, is true in Python.
UpdatePreviewStyled(bg, size, t, align, xpos, ypos, old, font, color) ==
    IF bg = <<>> \/ size[1] <= 0 \/ size[2] <= 0 THEN old
    ELSE <<RenderPreviewStyled(bg[1], size, t, align, xpos, ypos, font, color)>>

UpdatePreview(bg, size, t, align, xpos, ypos, old) ==
    UpdatePreviewStyled(bg, size, t, align, xpos, ypos, old, current_font,
                        text_color)

WinInit ==
    /\ current_background = <<>>
    /\ text = <<>>
    /\ alignment = AlignCenterFlag
    /\ h_slider = 0
    /\ v_slider = 0
    /\ text_x_position = 0
    /\ text_y_position = 0
    /\ preview_size \in PreviewSizes
    /\ preview = <<>>
    /\ exported = <<>>
    /\ current_font = [family |-> "Arial", size |-> 24]
    /\ text_color = "white"

\* text_edit.textChanged -> update_preview
text_changed(t) ==
    /\ t # text
    /\ text' = t
    /\ preview' = UpdatePreview(current_background, preview_size, t, alignment,
                                text_x_position, text_y_position, preview)
    /\ UNCHANGED <<genVars, aiVars, utilVars, styleVars, exported, current_background, alignment, h_slider, v_slider,
                   text_x_position, text_y_position, preview_size>>

\* A slider's valueChanged -> update_text_position
update_text_position(h, v) ==
    /\ (h # h_slider /\ v = v_slider) \/ (h = h_slider /\ v # v_slider)
    /\ h_slider' = h
    /\ v_slider' = v
    /\ text_x_position' = h
    /\ text_y_position' = v
    /\ preview' = UpdatePreview(current_background, preview_size, text, alignment,
                                h, v, preview)
    /\ UNCHANGED <<genVars, aiVars, utilVars, styleVars, exported, current_background, text, alignment, preview_size>>

\* align_combo.currentIndexChanged -> change_text_alignment
change_text_alignment(index) ==
    /\ AlignComboData[index] # alignment
    /\ alignment' = AlignComboData[index]
    /\ preview' = UpdatePreview(current_background, preview_size, text,
                                AlignComboData[index], text_x_position,
                                text_y_position, preview)
    /\ UNCHANGED <<genVars, aiVars, utilVars, styleVars, exported, current_background, text, h_slider, v_slider,
                   text_x_position, text_y_position, preview_size>>

\* load_custom_background with a file chosen in the dialog.
load_custom_background(pixmap) ==
    /\ current_background' = <<pixmap>>
    /\ preview' = UpdatePreview(<<pixmap>>, preview_size, text, alignment,
                                text_x_position, text_y_position, preview)
    /\ UNCHANGED <<genVars, aiVars, utilVars, styleVars, exported, text, alignment, h_slider, v_slider, text_x_position,
                   text_y_position, preview_size>>

\* load_background_from_collection with a file accepted in the dialog: the
\* preview is refreshed only when the file decodes.
load_background_from_collection(pixmap) ==
    /\ current_background' = <<pixmap>>
    /\ preview' = IF pixmap.null THEN preview
                  ELSE UpdatePreview(<<pixmap>>, preview_size, text, alignment,
                                     text_x_position, text_y_position, preview)
    /\ UNCHANGED <<genVars, aiVars, utilVars, styleVars, exported, text, alignment, h_slider, v_slider, text_x_position,
                   text_y_position, preview_size>>

\* The layout gives preview_label a new size; nothing redraws the preview.
resize_preview_label(size) ==
    /\ size # preview_size
    /\ preview_size' = size
    /\ UNCHANGED <<genVars, aiVars, utilVars, styleVars, exported, current_background, text, alignment, h_slider, v_slider,
                   text_x_position, text_y_position, preview>>

FontFamilies == {"Arial", "Georgia"}

FontSizes == {24, 36}

TextColors == {"white", "black"}

\* font_combo.currentTextChanged -> change_font_family
change_font_family(font_family) ==
    /\ font_family # current_font.family
    /\ current_font' = [current_font EXCEPT !.family = font_family]
    /\ preview' = UpdatePreviewStyled(current_background, preview_size, text,
                                      alignment, text_x_position, text_y_position,
                                      preview, current_font', text_color)
    /\ UNCHANGED <<genVars, aiVars, utilVars, exported, current_background, text,
                   alignment, h_slider, v_slider, text_x_position, text_y_position,
                   preview_size, text_color>>

\* size_spin.valueChanged -> change_font_size
change_font_size(size) ==
    /\ size # current_font.size
    /\ current_font' = [current_font EXCEPT !.size = size]
    /\ preview' = UpdatePreviewStyled(current_background, preview_size, text,
                                      alignment, text_x_position, text_y_position,
                                      preview, current_font', text_color)
    /\ UNCHANGED <<genVars, aiVars, utilVars, exported, current_background, text,
                   alignment, h_slider, v_slider, text_x_position, text_y_position,
                   preview_size, text_color>>

\* choose_text_color: the colour dialog accepted with color, or dismissed
\* (<<>>), which changes nothing and redraws nothing.
choose_text_color(color) ==
    /\ IF color = <<>>
       THEN UNCHANGED <<text_color, preview>>
       ELSE /\ text_color' = color[1]
            /\ preview' = UpdatePreviewStyled(current_background, preview_size,
                                              text, alignment, text_x_position,
                                              text_y_position, preview,
                                              current_font, color[1])
    /\ UNCHANGED <<genVars, aiVars, utilVars, exported, current_background, text,
                   alignment, h_slider, v_slider, text_x_position, text_y_position,
                   preview_size, current_font>>

\* export_poster: without a decoded background it warns and returns, and so
\* it does when the file dialog is dismissed; otherwise it saves the pixmap
\* the preview label shows, which may fail.
export_poster(file_chosen, success) ==
    /\ exported' = IF current_background = <<>> THEN exported
                   ELSE IF current_background[1].null \/ ~file_chosen THEN exported
                   ELSE IF preview = <<>> THEN exported
                   ELSE IF preview[1].pixmap.null \/ ~success THEN exported
                   ELSE <<preview[1].pixmap.w, preview[1].pixmap.h>>
    /\ UNCHANGED <<genVars, aiVars, utilVars, styleVars, current_background, text,
                   alignment, h_slider,
                   v_slider, text_x_position, text_y_position, preview_size,
                   preview>>

WinNext ==
    \/ \E t \in Texts : text_changed(t)
    \/ \E h \in SliderStops, v \in SliderStops : update_text_position(h, v)
    \/ \E index \in 1 .. 3 : change_text_alignment(index)
    \/ \E p \in WindowRasters \cup {NullPixmap} : load_custom_background(p)
    \/ \E p \in WindowRasters \cup {NullPixmap} : load_background_from_collection(p)
    \/ \E size \in PreviewSizes : resize_preview_label(size)
    \/ \E file_chosen \in BOOLEAN, success \in BOOLEAN :
           export_poster(file_chosen, success)

(* ------------------- AIGenerator, AIGenerationWorker ------------------ *)
\* str(e) of what the image API raises, as words.
ApiErrors ==
    {<<"timeout">>, <<"Rate_Limit", "hit">>, <<"invalid_api_key">>,
     <<"billing_hard_limit_reached">>}

\* str(e) of what requests.get or raise_for_status raises.
DownloadErrors == {<<"404">>}

\* The image the downloaded bytes decode to.
DecodedImage == Raster("ai", 4, 4)

\* str.lower on a word.
Lower(word) == IF word = "Rate_Limit" THEN "rate_limit" ELSE word

\* key in error_msg.lower()
Mentions(msg, key) == \E i \in DOMAIN msg : Lower(msg[i]) = key

\* The message as raised.
ErrorMessageAsRaised(msg) == msg

\* error_msg of the except block: three kinds of error get a text of their own.
ErrorMessage(msg) ==
    IF Mentions(msg, "rate_limit")
    THEN <<"API rate limit exceeded. Please try again later.">>
    ELSE IF Mentions(msg, "invalid_api_key")
    THEN <<"Invalid API key. Please check your API key in settings.">>
    ELSE IF Mentions(msg, "billing_hard_limit_reached")
    THEN <<"Billing hard limit reached. Please check your OpenAI account.">>
    ELSE msg

\* AIGenerationResult(success=False, error=f"AI generation failed: {error_msg}")
FailureResult(msg) ==
    [success |-> FALSE, image |-> <<>>,
     error |-> <<"AI generation failed: ">> \o ErrorMessage(msg)]

\* The result generate_background emits when is_configured() is false.
NotConfiguredResult ==
    [success |-> FALSE, image |-> <<>>,
     error |-> <<"OpenAI API key not configured. Please set your API key in settings.">>]

\* The result GenerationThread.run emits when is_configured() is false.
NotProperlyConfiguredResult ==
    [success |-> FALSE, image |-> <<>>,
     error |-> <<"AI generation is not properly configured.\nPlease set up your API keys in the .env file.">>]

\* An AIGenerationWorker not yet created.
NoWorker ==
    [pc |-> "new", _is_cancelled |-> FALSE, home |-> "main", response |-> "none",
     image |-> <<>>, msg |-> <<>>, late |-> FALSE]

\* isRunning()
IsRunning(w) == workers[w].pc \notin {"new", "done"}

Created == {w \in 1 .. MaxWorkers : workers[w].pc # "new"}

\* A signal emitted in one thread for a receiver living in another is queued
\* on the receiver's thread.
Post(q, thread, event) == [q EXCEPT ![thread] = Append(@, event)]

\* Progress delivered in the thread that owns the AIGenerator.
WorkerHomeMain(caller) == "main"

\* The thread in which the worker's progress_updated is delivered: the
\* connection to progress_updated.emit has no receiver object, so the slot
\* runs in the thread that made the worker and the connection, the caller
\* of generate_background.
WorkerHome(caller) == caller

\* Lines 95-100 of generate_background: a new worker, kept in _worker, started.
StartWorker(ws, caller) ==
    LET n == Cardinality(Created) + 1
    IN  [ws EXCEPT ![n] = [NoWorker EXCEPT !.pc = "run",
                                           !.home = WorkerHome(caller)]]

aiOthers == <<genVars, winVars, utilVars>>

AIInit ==
    /\ configured \in BOOLEAN
    /\ _worker = 0
    /\ workers = [w \in 1 .. MaxWorkers |-> NoWorker]
    /\ queue = [t \in {"main", "G"} |-> <<>>]
    /\ mainpc = "idle"
    /\ gpc = "none"
    /\ dialog = "none"
    /\ delivered = <<>>
    /\ outcomes = <<>>

(* AIGenerationWorker.run, statement by statement *)
\* self.progress_updated.emit(10)
run_emit_10(w) ==
    /\ workers[w].pc = "run"
    /\ queue' = Post(queue, workers[w].home, [kind |-> "progress_updated", value |-> 10])
    /\ workers' = [workers EXCEPT ![w].pc = "generate"]
    /\ UNCHANGED <<aiOthers, configured, _worker, mainpc, gpc, dialog, delivered,
                   outcomes>>

\* client.images.generate(...): a response with a URL, one without, or an error.
run_images_generate(w, outcome) ==
    /\ workers[w].pc = "generate"
    /\ workers' = IF outcome \in ApiErrors
                  THEN [workers EXCEPT ![w].pc = "except", ![w].msg = outcome]
                  ELSE [workers EXCEPT ![w].pc = "check_175",
                                       ![w].response = outcome[1]]
    /\ UNCHANGED <<aiOthers, configured, _worker, queue, mainpc, gpc, dialog,
                   delivered, outcomes>>

\* Lines 175-184: return when cancelled, else emit 30 and look for the URL.
run_check_175(w) ==
    /\ workers[w].pc = "check_175"
    /\ IF workers[w]._is_cancelled
       THEN /\ workers' = [workers EXCEPT ![w] = [NoWorker EXCEPT
                                                     !.pc = "done",
                                                     !._is_cancelled = TRUE,
                                                     !.home = workers[w].home]]
            /\ UNCHANGED queue
       ELSE /\ queue' = Post(queue, workers[w].home,
                             [kind |-> "progress_updated", value |-> 30])
            /\ workers' = IF workers[w].response = "nourl"
                          THEN [workers EXCEPT
                                   ![w].pc = "except",
                                   ![w].msg = <<"No image URL returned from API">>]
                          ELSE [workers EXCEPT ![w].pc = "download"]
    /\ UNCHANGED <<aiOthers, configured, _worker, mainpc, gpc, dialog, delivered,
                   outcomes>>

\* Lines 186-214: download the bytes and decode them.
run_download(w, outcome) ==
    /\ workers[w].pc = "download"
    /\ workers' =
          IF outcome \in DownloadErrors
          THEN [workers EXCEPT ![w].pc = "except", ![w].msg = outcome]
          ELSE IF outcome = <<"undecodable">>
          THEN [workers EXCEPT ![w].pc = "except",
                               ![w].msg = <<"Failed to load image data">>]
          ELSE IF outcome = <<"null">>
          THEN [workers EXCEPT
                   ![w].pc = "except",
                   ![w].msg = <<"Failed to create valid image from response">>]
          ELSE [workers EXCEPT ![w].pc = "check_216",
                               ![w].image = <<DecodedImage>>]
    /\ UNCHANGED <<aiOthers, configured, _worker, queue, mainpc, gpc, dialog,
                   delivered, outcomes>>

\* Lines 216-230: return when cancelled, else emit 90 and build the result,
\* whose metadata names size_str, a name bound nowhere: NameError, so that
\* lines 232-233 (emit 100, emit the success result) are never reached.
run_check_216(w) ==
    /\ workers[w].pc = "check_216"
    /\ IF workers[w]._is_cancelled
       THEN /\ workers' = [workers EXCEPT ![w] = [NoWorker EXCEPT
                                                     !.pc = "done",
                                                     !._is_cancelled = TRUE,
                                                     !.home = workers[w].home]]
            /\ UNCHANGED queue
       ELSE /\ queue' = Post(queue, workers[w].home,
                             [kind |-> "progress_updated", value |-> 90])
            /\ workers' = [workers EXCEPT
                              ![w].pc = "except",
                              ![w].msg = <<"name 'size_str' is not defined">>]
    /\ UNCHANGED <<aiOthers, configured, _worker, mainpc, gpc, dialog, delivered,
                   outcomes>>

\* except Exception: self.finished.emit(failure), queued for the thread of
\* the AIGenerator; run returns.
run_except(w) ==
    /\ workers[w].pc = "except"
    /\ queue' = Post(queue, "main", [kind |-> "finished", sender |-> w,
                                     raised |-> workers[w].msg,
                                     result |-> FailureResult(workers[w].msg)])
    /\ workers' = [workers EXCEPT ![w] = [NoWorker EXCEPT
                                             !.pc = "done",
                                             !._is_cancelled = workers[w]._is_cancelled,
                                             !.home = workers[w].home,
                                             !.image = workers[w].image,
                                             !.late = workers[w]._is_cancelled]]
    /\ UNCHANGED <<aiOthers, configured, _worker, mainpc, gpc, dialog, delivered,
                   outcomes>>

WorkerNext ==
    \E w \in 1 .. MaxWorkers :
        \/ run_emit_10(w)
        \/ \E outcome \in {<<"url">>, <<"nourl">>} \cup ApiErrors :
               run_images_generate(w, outcome)
        \/ run_check_175(w)
        \/ \E outcome \in {<<"ok">>, <<"undecodable">>, <<"null">>}
                          \cup DownloadErrors : run_download(w, outcome)
        \/ run_check_216(w)
        \/ run_except(w)

(* AIGenerator, called by a client living in its thread *)
\* generate_background: without a key it emits the failure at once; else it
\* cancels a running worker and waits for it, then starts a new one.
generate_background ==
    /\ mainpc = "idle"
    /\ gpc = "none"
    /\ IF ~configured
       THEN /\ Len(outcomes) < MaxWorkers
            /\ outcomes' = Append(outcomes, [sender |-> 0, raised |-> <<>>,
                                             result |-> NotConfiguredResult])
            /\ UNCHANGED <<_worker, workers, mainpc>>
       ELSE /\ Cardinality(Created) < MaxWorkers
            /\ IF _worker # 0 /\ IsRunning(_worker)
               THEN /\ workers' = [workers EXCEPT ![_worker]._is_cancelled = TRUE]
                    /\ mainpc' = "generate_wait"
                    /\ UNCHANGED _worker
               ELSE /\ workers' = StartWorker(workers, "main")
                    /\ _worker' = Cardinality(Created) + 1
                    /\ UNCHANGED mainpc
            /\ UNCHANGED outcomes
    /\ UNCHANGED <<aiOthers, configured, queue, gpc, dialog, delivered>>

\* cancel_generation called by the client: cancel() and wait() on a running
\* worker, nothing otherwise.
cancel_generation ==
    /\ mainpc = "idle"
    /\ gpc = "none"
    /\ _worker # 0
    /\ IsRunning(_worker)
    /\ workers' = [workers EXCEPT ![_worker]._is_cancelled = TRUE]
    /\ mainpc' = "cancel_wait"
    /\ UNCHANGED <<aiOthers, configured, _worker, queue, gpc, dialog, delivered,
                   outcomes>>

\* self._worker.wait() returns once run has returned; generate_background
\* goes on to start the new worker.
wait_returns ==
    /\ mainpc \in {"generate_wait", "cancel_wait"}
    /\ ~IsRunning(_worker)
    /\ mainpc' = "idle"
    /\ IF mainpc = "generate_wait"
       THEN /\ workers' = StartWorker(workers, "main")
            /\ _worker' = Cardinality(Created) + 1
       ELSE UNCHANGED <<_worker, workers>>
    /\ UNCHANGED <<aiOthers, configured, queue, gpc, dialog, delivered, outcomes>>

\* on_generation_finished of generate_background_ai
OnGenerationFinished(result) ==
    /\ dialog' = "closed"
    /\ outcomes' = Append(outcomes, [sender |-> 0, raised |-> <<>>,
                                     result |-> result])
    /\ IF result.success /\ result.image # <<>>
       THEN /\ current_background' = result.image
            /\ preview' = UpdatePreview(result.image, preview_size, text, alignment,
                                        text_x_position, text_y_position, preview)
       ELSE UNCHANGED <<current_background, preview>>

\* The event loop of the main thread takes the next queued delivery:
\*   finished          -> AIGenerator._on_generation_finished, which emits
\*                        generation_finished: to the client's listener, or,
\*                        inside GenerationThread, to loop.quit (queued for G);
\*   progress_updated  -> AIGenerator.progress_updated.emit, to which only
\*                        GenerationThread connects a listener;
\*   progress_signal   -> on_progress_updated (progress.setValue);
\*   finished_signal   -> on_generation_finished.
main_thread_event ==
    /\ mainpc = "idle"
    /\ queue["main"] # <<>>
    /\ LET e == Head(queue["main"])
           rest == [queue EXCEPT !["main"] = Tail(@)]
       IN  CASE e.kind = "finished" ->
                  /\ _worker' = 0
                  /\ IF gpc = "none"
                     THEN /\ outcomes' = Append(outcomes, [sender |-> e.sender,
                                                           raised |-> e.raised,
                                                           result |-> e.result])
                          /\ queue' = rest
                     ELSE /\ queue' = Post(rest, "G", [kind |-> "quit"])
                          /\ UNCHANGED outcomes
                  /\ UNCHANGED <<delivered, dialog, current_background, preview>>
             [] e.kind \in {"progress_updated", "progress_signal"} ->
                  /\ delivered' = IF gpc = "none" THEN delivered
                                  ELSE Append(delivered, e.value)
                  /\ queue' = rest
                  /\ UNCHANGED <<_worker, outcomes, dialog, current_background,
                                 preview>>
             [] e.kind = "finished_signal" ->
                  /\ OnGenerationFinished(e.result)
                  /\ queue' = rest
                  /\ UNCHANGED <<_worker, delivered>>
    /\ UNCHANGED <<genVars, utilVars, styleVars, text, alignment, h_slider, v_slider,
                   text_x_position,
                   text_y_position, preview_size, exported, configured, workers,
                   mainpc, gpc>>

(* MainWindow.generate_background_ai and its GenerationThread *)
\* The prompt dialog accepted with a non-blank prompt: the progress dialog
\* is created and the thread started. Dismissed or blank: nothing.
generate_background_ai(ok) ==
    /\ mainpc = "idle"
    /\ gpc = "none"
    /\ Created = {}
    /\ outcomes = <<>>
    /\ IF ok
       THEN /\ dialog' = "open"
            /\ gpc' = "start"
       ELSE UNCHANGED <<dialog, gpc>>
    /\ UNCHANGED <<aiOthers, configured, _worker, workers, queue, mainpc, delivered,
                   outcomes>>

\* run, lines 416-422: without a key emit the failure and return.
GenerationThread_is_configured ==
    /\ gpc = "start"
    /\ IF configured
       THEN /\ gpc' = "generate"
            /\ UNCHANGED queue
       ELSE /\ gpc' = "done"
            /\ queue' = Post(queue, "main",
                             [kind |-> "finished_signal",
                              result |-> NotProperlyConfiguredResult])
    /\ UNCHANGED <<aiOthers, configured, _worker, workers, mainpc, dialog, delivered,
                   outcomes>>

\* run, lines 425-432: connect the signals and call generate_background,
\* which finds no worker to cancel and starts one.
GenerationThread_generate_background ==
    /\ gpc = "generate"
    /\ workers' = StartWorker(workers, "G")
    /\ _worker' = Cardinality(Created) + 1
    /\ gpc' = "emit"
    /\ UNCHANGED <<aiOthers, configured, queue, mainpc, dialog, delivered, outcomes>>

\* run, line 435: self.progress_signal.emit(10), queued for the main thread.
GenerationThread_emit_10 ==
    /\ gpc = "emit"
    /\ queue' = Post(queue, "main", [kind |-> "progress_signal", value |-> 10])
    /\ gpc' = "loop"
    /\ UNCHANGED <<aiOthers, configured, _worker, workers, mainpc, dialog, delivered,
                   outcomes>>

\* run, line 438: loop.exec() takes the next queued delivery: a progress
\* value of the worker is emitted again as progress_signal; quit ends run.
GenerationThread_loop ==
    /\ gpc = "loop"
    /\ queue["G"] # <<>>
    /\ LET e == Head(queue["G"])
           rest == [queue EXCEPT !["G"] = Tail(@)]
       IN  IF e.kind = "quit"
           THEN /\ gpc' = "done"
                /\ queue' = rest
           ELSE /\ gpc' = "loop"
                /\ queue' = Post(rest, "main", [kind |-> "progress_signal",
                                                value |-> e.value])
    /\ UNCHANGED <<aiOthers, configured, _worker, workers, mainpc, dialog, delivered,
                   outcomes>>

\* The Cancel button: progress.canceled -> generation_thread.terminate().
progress_canceled ==
    /\ dialog = "open"
    /\ dialog' = "canceled"
    /\ gpc' = IF gpc \in {"start", "generate", "emit", "loop"} THEN "terminated"
              ELSE gpc
    /\ UNCHANGED <<aiOthers, configured, _worker, workers, queue, mainpc, delivered,
                   outcomes>>

(* --------------------------- specifications --------------------------- *)
(* ---------------------------- ConfigManager --------------------------- *)
\* The keys of config.json this model follows; None is <<>>, a value that
\* is present is <<value>>, a str is a sequence of characters.  The file is
\* taken to be readable and writable, so that _load_config returns what
\* _save_config wrote: every value set here is a str, an int, a list of
\* str or None, which json.dump and json.load carry unchanged.
default_settings ==
    [recent_files |-> <<>>, max_recent_files |-> 10, default_font |-> "Arial",
     default_font_size |-> 24, default_text_color |-> "#FFFFFF",
     default_bg_color |-> "#333333", window_geometry |-> <<>>,
     window_state |-> <<>>]

\* {**self.default_settings, **config}
MergeDefaults(file) ==
    [k \in DOMAIN default_settings \cup DOMAIN file |->
        IF k \in DOMAIN file THEN file[k] ELSE default_settings[k]]

\* _load_config
LoadConfig == MergeDefaults(config)

\* get(key)
Get(key) == LoadConfig[key]

\* set(key, value): load, assign, save
SetKey(file, key, value) == [MergeDefaults(file) EXCEPT ![key] = value]

\* list.remove(x): the first occurrence goes
RECURSIVE ListRemove(_, _)
ListRemove(l, x) ==
    IF l = <<>> THEN <<>>
    ELSE IF Head(l) = x THEN Tail(l)
    ELSE <<Head(l)>> \o ListRemove(Tail(l), x)

\* l[:n] of a Python list: a negative n counts from the end
SliceTo(l, n) ==
    LET stop == IF n >= 0 THEN Min(n, Len(l)) ELSE Max(Len(l) + n, 0)
    IN  SubSeq(l, 1, stop)

\* bytes.hex(): two lower-case hexadecimal digits per byte
HexDigits ==
    <<"0", "1", "2", "3", "4", "5", "6", "7", "8", "9", "a", "b", "c", "d", "e", "f">>

RECURSIVE Hex(_)
Hex(bs) ==
    IF bs = <<>> THEN <<>>
    ELSE <<HexDigits[(Head(bs) \div 16) + 1], HexDigits[(Head(bs) % 16) + 1]>>
         \o Hex(Tail(bs))

DigitValue(c) == CHOOSE d \in 0 .. 15 : HexDigits[d + 1] = c

\* bytes.fromhex() of a string of digit pairs
FromHex(h) ==
    [i \in 1 .. (Len(h) \div 2) |->
        16 * DigitValue(h[2 * i - 1]) + DigitValue(h[2 * i])]

\* bool(value) for None and str: None and '' are false
Truthy(v) == v # <<>> /\ v[1] # <<>>

\* load_window_geometry
load_window_geometry ==
    IF Truthy(Get("window_geometry")) THEN <<FromHex(Get("window_geometry")[1])>>
    ELSE <<>>

\* load_window_state
load_window_state ==
    IF Truthy(Get("window_state")) THEN <<FromHex(Get("window_state")[1])>>
    ELSE <<>>

\* get_recent_files
get_recent_files == Get("recent_files")

NoConfigCall == [op |-> "none", args |-> <<>>, before |-> default_settings]

\* ConfigManager.__init__ with no config.json yet writes the defaults.
ConfigInit ==
    /\ config = default_settings
    /\ cfg_last = NoConfigCall

Paths == {"a", "b", "c"}

MaxRecentChoices == {0, 1, 2, 10}

MaxBytes == 1

ByteStrings ==
    UNION {[1 .. n -> {0, 10, 255}] : n \in 0 .. MaxBytes}

\* add_recent_file(file_path)
AddRecentFile(file, file_path) ==
    LET recent_files == MergeDefaults(file).recent_files
        removed == IF \E i \in 1 .. Len(recent_files) : recent_files[i] = file_path
                   THEN ListRemove(recent_files, file_path)
                   ELSE recent_files
        inserted == <<file_path>> \o removed
        max_files == MergeDefaults(file).max_recent_files
        trimmed == IF Len(inserted) > max_files THEN SliceTo(inserted, max_files)
                   ELSE inserted
    IN  SetKey(file, "recent_files", trimmed)

add_recent_file(file_path) ==
    /\ config' = AddRecentFile(config, file_path)
    /\ cfg_last' = [op |-> "add_recent_file", args |-> <<file_path>>,
                    before |-> config]
    /\ UNCHANGED <<genVars, winVars, aiVars, wrap>>

clear_recent_files ==
    /\ config' = SetKey(config, "recent_files", <<>>)
    /\ cfg_last' = [op |-> "clear_recent_files", args |-> <<>>, before |-> config]
    /\ UNCHANGED <<genVars, winVars, aiVars, wrap>>

\* set('max_recent_files', n)
set_max_recent_files(n) ==
    /\ config' = SetKey(config, "max_recent_files", n)
    /\ cfg_last' = [op |-> "set", args |-> <<"max_recent_files", n>>,
                    before |-> config]
    /\ UNCHANGED <<genVars, winVars, aiVars, wrap>>

\* save_window_geometry(geometry, state): both set calls
save_window_geometry(geometry, state) ==
    /\ config' = SetKey(SetKey(config, "window_geometry", <<Hex(geometry)>>),
                        "window_state", <<Hex(state)>>)
    /\ cfg_last' = [op |-> "save_window_geometry", args |-> <<geometry, state>>,
                    before |-> config]
    /\ UNCHANGED <<genVars, winVars, aiVars, wrap>>

ConfigNext ==
    \/ \E file_path \in Paths : add_recent_file(file_path)
    \/ clear_recent_files
    \/ \E n \in MaxRecentChoices : set_max_recent_files(n)
    \/ \E geometry \in ByteStrings, state \in ByteStrings :
           save_window_geometry(geometry, state)

(* ------------------------ drawText on its own ------------------------- *)
MaxLen == 4

MaxWrapWidth == 3

WrapTexts ==
    UNION {[1 .. n -> {"a", " ", Hyphen}] : n \in 1 .. MaxLen}

NoLayout == [text |-> <<>>, width |-> 0, lines |-> <<>>]

\* painter.drawText(rect, flags | TextWordWrap, text) in a rectangle
\* `width` wide and high enough for every line: the lines it lays out.
drawText(t, width) ==
    /\ wrap' = [text |-> t, width |-> width,
                lines |-> FormatText(QRect(0, 0, width, (Len(t) + 1) * LineH),
                                     TextWordWrap, t).lines]
    /\ UNCHANGED <<genVars, winVars, aiVars, config, cfg_last>>

WrapNext == \E t \in WrapTexts, width \in 0 .. MaxWrapWidth : drawText(t, width)

\* Neither the configuration nor a text on its own is touched.
UtilUnused ==
    /\ ConfigInit
    /\ wrap = NoLayout

vars == <<genVars, winVars, aiVars, utilVars>>

\* PosterSettings()
DefaultSettings ==
    [text |-> <<>>, alignment |-> "CENTER", padding |-> 40, size |-> <<800, 600>>,
     background_color |-> "#333333", text_color |-> "white"]

\* No AI generation asked for.
AIUnused ==
    /\ AIInit
    /\ configured = FALSE

\* The generator and image_utils, the window left as constructed.
Init ==
    /\ GenInit
    /\ WinInit
    /\ preview_size = <<MinPreviewW, MinPreviewH>>
    /\ AIUnused
    /\ UtilUnused

Next == GenNext

Spec == Init /\ [][Next]_vars

\* The window, the generator left as constructed.
PreviewInit ==
    /\ settings = DefaultSettings
    /\ NoBackgroundYet
    /\ WinInit
    /\ AIUnused
    /\ UtilUnused

PreviewNext == WinNext

PreviewSpec == PreviewInit /\ [][PreviewNext]_vars

\* An AIGenerator driven by a client of its own thread.
AIGeneratorInit ==
    /\ settings = DefaultSettings
    /\ NoBackgroundYet
    /\ WinInit
    /\ preview_size = <<MinPreviewW, MinPreviewH>>
    /\ AIInit
    /\ UtilUnused

AIGeneratorNext ==
    \/ generate_background
    \/ cancel_generation
    \/ wait_returns
    \/ main_thread_event
    \/ WorkerNext

AIGeneratorSpec == AIGeneratorInit /\ [][AIGeneratorNext]_vars

\* One AI generation started from the window, with a background loaded or not.
AIWindowInit ==
    /\ settings = DefaultSettings
    /\ NoBackgroundYet
    /\ WinInit
    /\ preview_size = <<MinPreviewW, MinPreviewH>>
    /\ AIInit
    /\ UtilUnused

AIWindowNext ==
    \/ \E ok \in BOOLEAN : generate_background_ai(ok)
    \/ GenerationThread_is_configured
    \/ GenerationThread_generate_background
    \/ GenerationThread_emit_10
    \/ GenerationThread_loop
    \/ progress_canceled
    \/ main_thread_event
    \/ WorkerNext

AIWindowSpec == AIWindowInit /\ [][AIWindowNext]_vars

\* The window with its font and colour controls in use.
StyleNext ==
    \/ \E t \in Texts : text_changed(t)
    \/ \E h \in SliderStops, v \in SliderStops : update_text_position(h, v)
    \/ \E index \in 1 .. 3 : change_text_alignment(index)
    \/ \E p \in WindowRasters \cup {NullPixmap} : load_custom_background(p)
    \/ \E p \in WindowRasters \cup {NullPixmap} : load_background_from_collection(p)
    \/ \E font_family \in FontFamilies : change_font_family(font_family)
    \/ \E size \in FontSizes : change_font_size(size)
    \/ \E color \in {<<>>} \cup {<<c>> : c \in TextColors} : choose_text_color(color)

StyleSpec == PreviewInit /\ [][StyleNext]_vars

\* A ConfigManager on a fresh config.json.
ConfigSpecInit ==
    /\ settings = DefaultSettings
    /\ NoBackgroundYet
    /\ WinInit
    /\ preview_size = <<MinPreviewW, MinPreviewH>>
    /\ AIUnused
    /\ UtilUnused

ConfigSpec == ConfigSpecInit /\ [][ConfigNext]_vars

\* Texts laid out on their own.
WrapSpec == ConfigSpecInit /\ [][WrapNext]_vars

(* ------------------------------- claims ------------------------------- *)
Rendered == last.op \in {"generate_poster", "save_poster"}

ValidSize == settings.size[1] > 0 /\ settings.size[2] > 0

HasRaster == hasBackground /\ ~background.null

CanvasCells(p) == (0 .. p.w - 1) \X (0 .. p.h - 1)

\* C1: for every positive settings.size, every background state and every
\* text, generate_poster returns a canvas of exactly settings.size.
C1_CanvasSizeExact ==
    (Rendered /\ ValidSize) =>
        /\ ~last.render.result.null
        /\ last.render.result.w = settings.size[1]
        /\ last.render.result.h = settings.size[2]

C1_Witness ==
    /\ last.op = "generate_poster" /\ ValidSize /\ HasRaster
    /\ background.w * settings.size[2] # background.h * settings.size[1]
    /\ ~IsBlank(settings.text)
    /\ last.render.result.w = settings.size[1]
    /\ last.render.result.h = settings.size[2]

\* C2: with no background set, or a null one, generate_poster raises
\* nothing and the canvas before the text pass has settings.size and every
\* pixel of it is settings.background_color.
C2_BlankFallback ==
    (Rendered /\ ValidSize /\ ~HasRaster) =>
        /\ ~last.raised
        /\ ~last.render.fitted.null
        /\ last.render.fitted.w = settings.size[1]
        /\ last.render.fitted.h = settings.size[2]
        /\ Ink(last.render.fitted) = {}
        /\ \A c \in CanvasCells(last.render.fitted) :
              PixelAt(last.render.fitted, c[1], c[2])
                  = <<settings.background_color, 0, 0>>

C2_Witness ==
    /\ last.op = "generate_poster" /\ ValidSize
    /\ hasBackground /\ background.null
    /\ ~IsBlank(settings.text)
    /\ last.render.fitted.fill = settings.background_color

\* C3: for a non-null background and a positive target, the cover-scaled
\* image is at least the target on both axes, equal to it on one, and keeps
\* the source aspect ratio to within one pixel of rounding.
C3_CoverScale ==
    (Rendered /\ ValidSize /\ HasRaster) =>
        LET sc == last.render.scaled
        IN  /\ sc.w >= settings.size[1]
            /\ sc.h >= settings.size[2]
            /\ sc.w = settings.size[1] \/ sc.h = settings.size[2]
            /\ Abs(sc.w * background.h - sc.h * background.w)
                 < Max(background.w, background.h)

C3_Witness ==
    /\ last.op = "generate_poster" /\ ValidSize /\ HasRaster
    /\ last.render.scaled.w > settings.size[1]
    /\ last.render.scaled.h = settings.size[2]
    /\ last.render.scaled.w # background.w

\* C4: the crop window starts at the floor of half the excess on each axis,
\* has exactly the target size, lies inside the scaled image, and the
\* fitted canvas shows that window of it.
C4_CropWindow ==
    (Rendered /\ ValidSize /\ HasRaster /\ last.render.cropped) =>
        LET sc == last.render.scaled
            c == last.render.crop
            ex == sc.w - settings.size[1]
            ey == sc.h - settings.size[2]
        IN  /\ 2 * c.x1 <= ex /\ ex <= 2 * c.x1 + 1
            /\ 2 * c.y1 <= ey /\ ey <= 2 * c.y1 + 1
            /\ RectWidth(c) = settings.size[1]
            /\ RectHeight(c) = settings.size[2]
            /\ 0 <= c.x1 /\ c.x1 + settings.size[1] <= sc.w
            /\ 0 <= c.y1 /\ c.y1 + settings.size[2] <= sc.h
            /\ \A p \in CanvasCells(last.render.fitted) :
                  PixelAt(last.render.fitted, p[1], p[2])
                      = PixelAt(sc, p[1] + c.x1, p[2] + c.y1)

C4_Witness ==
    /\ last.op = "generate_poster" /\ ValidSize /\ HasRaster
    /\ last.render.cropped
    /\ (last.render.scaled.w - settings.size[1]) % 2 = 1
    /\ last.render.crop.x1 > 0

\* C5 (as claimed): when the scaled background already has settings.size,
\* the crop step is skipped and the fitted canvas equals the scaled image
\* pixel for pixel.
C5_CropSkippedWhenEqual ==
    (Rendered /\ ValidSize /\ HasRaster
       /\ last.render.scaled.w = settings.size[1]
       /\ last.render.scaled.h = settings.size[2]) =>
        /\ ~last.render.cropped
        /\ Pixels(last.render.fitted) = Pixels(last.render.scaled)

\* C6 (as claimed): with an empty or whitespace-only text no text pass is
\* applied by generate_poster, add_text_to_image or update_preview, and
\* what they return or display has nothing drawn on the background.
C6_NoTextPassWhenBlank ==
    /\ (last.op \in {"generate_poster", "save_poster", "add_text_to_image"}
          /\ IsBlank(settings.text)) =>
           /\ ~last.render.textPass
           /\ last.render.result = last.render.fitted
           /\ Ink(last.render.result) = {}
    /\ (preview # <<>> /\ preview[1].textPass) =>
           ~IsBlank(preview[1].pixmap.text.text)

\* C7 (as claimed): the offsets are the products (pct/100)*(extent/2)
\* rounded to the nearest integer.
C7_OffsetsRounded ==
    (preview # <<>> /\ preview[1].textPass) =>
        /\ Abs(200 * preview[1].x_offset
                 - text_x_position * RectWidth(preview[1].margin_rect)) <= 100
        /\ Abs(200 * preview[1].y_offset
                 - text_y_position * RectHeight(preview[1].margin_rect)) <= 100

TruncatedTo(offset, n) ==
    /\ offset * n >= 0
    /\ \/ Abs(offset) = Abs(n) \div 200
       \/ /\ n # 0 /\ Abs(n) % 200 = 0
          /\ Abs(offset) = (Abs(n) \div 200) - 1

\* C7 (amended): the offsets are the products truncated toward zero: of the
\* sign of pct*extent, of magnitude floor(|pct*extent|/200), or one less
\* where pct*extent/200 is a whole number the double product falls below.
C7_OffsetsTruncated ==
    (preview # <<>> /\ preview[1].textPass) =>
        /\ TruncatedTo(preview[1].x_offset,
                       text_x_position * RectWidth(preview[1].margin_rect))
        /\ TruncatedTo(preview[1].y_offset,
                       text_y_position * RectHeight(preview[1].margin_rect))

C7_Witness ==
    /\ preview # <<>> /\ preview[1].textPass
    /\ (text_x_position * RectWidth(preview[1].margin_rect)) % 200 >= 100
    /\ preview[1].x_offset > 0
    /\ text_y_position = -29
    /\ RectHeight(preview[1].margin_rect) = 400
    /\ preview[1].y_offset = -57

\* C8: the horizontal offset moves both vertical edges of the text
\* rectangle by +x_offset for Left and Center and by -x_offset for Right,
\* for each alignment of the combo box, and keeps the width.
C8_HorizontalShift ==
    (preview # <<>> /\ preview[1].textPass) =>
        LET r == preview[1].text_rect
            m == preview[1].margin_rect
            xo == preview[1].x_offset
            a == preview[1].pixmap.text.flags \ TextWordWrap
        IN  /\ a \in {AlignComboData[i] : i \in 1 .. 3}
            /\ a \in {AlignLeftFlag, AlignCenterFlag} =>
                   r.x1 = m.x1 + xo /\ r.x2 = m.x2 + xo
            /\ a = AlignRightFlag => r.x1 = m.x1 - xo /\ r.x2 = m.x2 - xo
            /\ RectWidth(r) = RectWidth(m)
            /\ m = Adjusted(PixmapRect(preview[1].pixmap), Margin, Margin,
                            -Margin, -Margin)

C8_Witness ==
    /\ preview # <<>> /\ preview[1].textPass
    /\ preview[1].pixmap.text.flags = AlignRightFlag \cup TextWordWrap
    /\ preview[1].x_offset > 0
    /\ preview[1].text_rect.x1 = preview[1].margin_rect.x1 - preview[1].x_offset

\* C9: the vertical offset moves the top and the bottom edge of the text
\* rectangle by +y_offset for every alignment and leaves its height and
\* its horizontal extent as the horizontal step left them.
C9_VerticalShift ==
    (preview # <<>> /\ preview[1].textPass) =>
        LET r == preview[1].text_rect
            m == preview[1].margin_rect
            yo == preview[1].y_offset
            h == ShiftTextRect(m, preview[1].pixmap.text.flags, preview[1].x_offset)
        IN  /\ r.y1 = m.y1 + yo
            /\ r.y2 = m.y2 + yo
            /\ RectHeight(r) = RectHeight(m)
            /\ r.x1 = h.x1 /\ r.x2 = h.x2

C9_Witness ==
    /\ preview # <<>> /\ preview[1].textPass
    /\ preview[1].pixmap.text.flags = AlignLeftFlag \cup TextWordWrap
    /\ preview[1].y_offset < 0
    /\ preview[1].text_rect.y2 = preview[1].margin_rect.y2 + preview[1].y_offset

\* C10 (as claimed): when the padding inverts the text rectangle
\* (2*padding exceeds the width or the height), no text is drawn and the
\* result equals the fitted background.
C10_InvertedRectDrawsNothing ==
    (/\ last.op \in {"generate_poster", "save_poster", "add_text_to_image"}
     /\ last.render.textPass
     /\ \/ 2 * settings.padding > last.render.fitted.w
        \/ 2 * settings.padding > last.render.fitted.h) =>
        /\ Ink(last.render.result) = {}
        /\ Pixels(last.render.result) = Pixels(last.render.fitted)

\* C11: when settings.size has a non-positive width or height,
\* generate_poster raises an error to its caller and returns no canvas.
C11_NonPositiveSizeRaises ==
    (Rendered /\ ~ValidSize) => (last.raised /\ last.render = NoRender)

\* C12: generate_poster and save_poster leave the stored background and the
\* settings as they were, also when they paint text on the canvas made from
\* the background.
C12_BackgroundAndSettingsKept ==
    [][last'.op \in {"generate_poster", "save_poster"}
         => /\ settings' = settings
            /\ hasBackground' = hasBackground
            /\ background' = background]_vars

C12_Witness ==
    /\ Rendered
    /\ HasRaster
    /\ last.render.textPass
    /\ Ink(last.render.result) # {}
    /\ last.render.result # background

C14_ProgressMonotone ==
    \A i \in DOMAIN delivered :
        /\ delivered[i] \in 0 .. 100
        /\ i > 1 => delivered[i - 1] <= delivered[i]

C14_Witness == delivered = <<10, 10, 30, 90>>

\* C15: a worker that has been cancelled emits no result afterwards,
\* neither success nor failure.
C15_CancelledEmitsNothing == \A w \in 1 .. MaxWorkers : ~workers[w].late

GenerationOver ==
    /\ gpc \in {"done", "terminated"}
    /\ queue["main"] = <<>>
    /\ \A w \in 1 .. MaxWorkers : ~IsRunning(w)

\* C16: an AI generation started from the window and not cancelled has
\* delivered exactly one result to on_generation_finished once it is over.
C16_ExactlyOneOutcome ==
    (GenerationOver /\ dialog # "canceled") => Len(outcomes) = 1

\* C17: at most one AIGenerationWorker of an AIGenerator is running at any
\* moment.
C17_AtMostOneWorkerRunning ==
    Cardinality({w \in 1 .. MaxWorkers : IsRunning(w)}) <= 1

\* C18: when the API returned a URL, the download succeeded, the bytes
\* decoded and nothing was cancelled, the generation ends with a success
\* result carrying the decoded image, which becomes current_background.
C18_SuccessDelivered ==
    \A w \in 1 .. MaxWorkers :
        (/\ GenerationOver
         /\ dialog # "canceled"
         /\ workers[w].image # <<>>
         /\ ~workers[w]._is_cancelled)
        => /\ \E i \in DOMAIN outcomes :
                 /\ outcomes[i].result.success
                 /\ outcomes[i].result.image = workers[w].image
           /\ current_background = workers[w].image

\* C19 as stated: the error of a failure result is the collaborator's error
\* text, character for character.
C19_ErrorUntouched ==
    \A i \in DOMAIN outcomes :
        outcomes[i].sender # 0 => outcomes[i].result.error = outcomes[i].raised

\* C19: the error of a failure result the AIGenerator emits is "AI generation
\* failed: " followed by the text raised, or by a sentence of the worker's
\* own when the text names a rate limit, an invalid key or a billing limit.
C19_ErrorPrefixed ==
    \A i \in DOMAIN outcomes :
        outcomes[i].sender # 0 =>
            LET raised == outcomes[i].raised
                shown == CASE Mentions(raised, "rate_limit") ->
                                <<"API rate limit exceeded. Please try again later.">>
                           [] Mentions(raised, "invalid_api_key") ->
                                <<"Invalid API key. Please check your API key in settings.">>
                           [] Mentions(raised, "billing_hard_limit_reached") ->
                                <<"Billing hard limit reached. Please check your OpenAI account.">>
                           [] OTHER -> raised
            IN  /\ ~outcomes[i].result.success
                /\ outcomes[i].result.error = <<"AI generation failed: ">> \o shown

C19_Witness ==
    /\ \E i \in DOMAIN outcomes : outcomes[i].raised = <<"Rate_Limit", "hit">>
    /\ \E i \in DOMAIN outcomes : outcomes[i].raised = <<"timeout">>

\* C20: the image export_poster saves has the size of the poster canvas,
\* whatever the size of the preview widget.
C20_ExportFullResolution == exported # <<>> => exported = settings.size

\* C21 (as claimed): after every settings mutation (text edit, slider move,
\* font family or size change, colour pick, alignment change, new
\* background) the preview label shows a rendering, and with a background
\* loaded it is the rendering of the settings and background as they are
\* now.
C21_PreviewFollowsEveryMutation ==
    [][/\ preview' # <<>>
       /\ current_background' # <<>> =>
              preview' = <<RenderPreviewStyled(current_background'[1],
                                              preview_size', text', alignment',
                                              text_x_position', text_y_position',
                                              current_font', text_color')>>]_vars

\* A line may start at character i: whitespace precedes it, or a hyphen
\* that is followed by neither whitespace nor a hyphen.
BreakAllowedBefore(t, i) ==
    /\ i > 1
    /\ \/ t[i - 1] \in Whitespace
       \/ t[i - 1] = Hyphen /\ t[i] \notin Whitespace \cup {Hyphen}

\* The unbreakable runs that start on line l of the text t.
RunsOn(t, l) ==
    {i \in l.start .. (l.next - 1) :
        t[i] \notin Whitespace /\ (i = 1 \/ BreakAllowedBefore(t, i))}

C23_TopAnchored ==
    (Rendered /\ last.render.result.text.drawn
              /\ RectHeight(last.render.result.text.rect) > 0) =>
        LET drawn == last.render.result.text
            f == FormatText(drawn.rect, drawn.flags, drawn.text)
        IN  f.lineY2[1] = 2 * drawn.rect.y1

\* C24 (as claimed): the part of the cover-scaled background the preview
\* shows starts, on each axis, at the floor of half the excess of the
\* scaled size over the label size, the offset generate_poster crops at.
C24_PreviewCropsLikeGenerator ==
    (preview # <<>> /\ ~preview[1].scaled.null) =>
        /\ -preview[1].x = CropOffset(preview[1].scaled.w, preview[1].pixmap.w)
        /\ -preview[1].y = CropOffset(preview[1].scaled.h, preview[1].pixmap.h)

\* C25: text_x_position and text_y_position are the values of the
\* horizontal and the vertical slider and lie in -100..100, and the offsets
\* a preview was drawn with are at most half the width and half the height
\* of the text rectangle in magnitude.
C25_PositionsFollowSliders ==
    /\ text_x_position = h_slider
    /\ text_y_position = v_slider
    /\ text_x_position \in SliderMin .. SliderMax
    /\ text_y_position \in SliderMin .. SliderMax
    /\ (preview # <<>> /\ preview[1].textPass) =>
           /\ 2 * Abs(preview[1].x_offset) <= RectWidth(preview[1].margin_rect)
           /\ 2 * Abs(preview[1].y_offset) <= RectHeight(preview[1].margin_rect)

C25_Witness ==
    /\ preview # <<>> /\ preview[1].textPass
    /\ h_slider = SliderMin
    /\ text_x_position = SliderMin
    /\ 2 * preview[1].x_offset = -RectWidth(preview[1].margin_rect)
    /\ v_slider = 50
    /\ preview[1].y_offset > 0

\* C26 (as claimed): whenever an AIGenerationWorker is running,
\* AIGenerator._worker refers to it: the field is not reset by the finished
\* signal of an earlier worker.
C26_WorkerFieldTracksRunning ==
    \A w \in 1 .. MaxWorkers : IsRunning(w) => _worker = w

\* C27 (as claimed): every generation_finished emission of the AIGenerator
\* is preceded by a generation_started emission that matches it: it carries
\* the result of a worker that was started, and no worker accounts for two.
C27_FinishedFollowsStarted ==
    \A i \in DOMAIN outcomes :
        /\ outcomes[i].sender \in Created
        /\ \A j \in DOMAIN outcomes :
               outcomes[j].sender = outcomes[i].sender => j = i

\* C28 (as claimed): a set_background_from_file call that returns False,
\* the file missing or not decodable, leaves a background that was set
\* before as it was.
C28_FailedLoadKeepsBackground ==
    [][(HasRaster /\ last'.op = "set_background_from_file" /\ ~last'.ret)
         => /\ hasBackground' = hasBackground
            /\ background' = background]_vars

\* C29 (as claimed): after any sequence of add_recent_file,
\* clear_recent_files and set('max_recent_files', n) from the default
\* configuration, recent_files holds no path twice and at most
\* max_recent_files paths, and after add_recent_file(p) the path p is first
\* and the paths after it are in the order they had before.
C29_RecentFilesKept ==
    LET recent_files == get_recent_files
    IN  /\ \A i, j \in 1 .. Len(recent_files) :
               recent_files[i] = recent_files[j] => i = j
        /\ Len(recent_files) <= Get("max_recent_files")
        /\ cfg_last.op = "add_recent_file" =>
               LET others == SelectSeq(cfg_last.before.recent_files,
                                       LAMBDA q : q # cfg_last.args[1])
               IN  /\ recent_files # <<>>
                   /\ recent_files[1] = cfg_last.args[1]
                   /\ Tail(recent_files) = SubSeq(others, 1, Len(recent_files) - 1)

\* C30 (as claimed): after save_window_geometry(g, s), for every byte
\* string g and s, load_window_geometry returns g and load_window_state
\* returns s, and every other key of the configuration has the value it
\* had before.
C30_GeometryRoundTrip ==
    cfg_last.op = "save_window_geometry" =>
        /\ load_window_geometry = <<cfg_last.args[1]>>
        /\ load_window_state = <<cfg_last.args[2]>>
        /\ \A k \in DOMAIN LoadConfig \ {"window_geometry", "window_state"} :
               Get(k) = cfg_last.before[k]


====
